---- MODULE Spec2Model ----
(***************************************************************************)
(* Model of crc_benchmark.py (ICRAR benchmark_tools): the checksum         *)
(* registry, the chunked checksum executor (get_checksum, checksum_data),  *)
(* the four execution strategies behind pool.map (_serial_pool,            *)
(* ThreadPool, Pool with a shared RawArray, Pool with pickled copies) and  *)
(* the benchmark driver (do_benchmarking).                                 *)
(*                                                                         *)
(* 32-bit checksum values are kept as four bytes, most significant first,  *)
(* because a 32-bit unsigned value does not fit TLC's integers.            *)
(*                                                                         *)
(* Environment modelled: the optional crc32c module may or may not be      *)
(* importable (line 35-38); the optional xxhash module is not importable   *)
(* (line 39-42), so 'xxhash32' is never registered.                        *)
(***************************************************************************)
EXTENDS Integers, Sequences, FiniteSets, TLC

VARIABLES
    checksums,   \* the registry (line 45-56): registered names, in insertion order
    call,        \* one direct call of checksum_data: its inputs, position and result
    opts,        \* parsed command line (line 176): strategy and number_tasks
    faulty,      \* environment: TRUE while a method call may still return a wrong value
    origData,    \* the bytes main() loaded (line 178-183); never changed afterwards
    data,        \* the buffer object handed to do_benchmarking (a bytearray with -p)
    shmem,       \* the RawArray of _get_pool (line 105-107)
    shmemVal,    \* per worker process: its global _shmem_val has been set (line 81-83)
    pool,        \* the pool object of line 137, and how many were ever created
    pc,          \* position of the driver (main / do_benchmarking / _get_pool)
    now,         \* the clock read by time.time()
    shmT,        \* the timestamps and the report of _get_pool (line 104-109)
    k,           \* index of the current (variant, bufsize_log2) combination (line 141)
    t0,          \* t0 of line 148
    tasks,       \* per task index of the current map call: its position and stamps
    res,         \* the list pool.map returns (line 149), slot by slot
    rows,        \* the rows printed so far (line 163)
    err          \* the exception that ended do_benchmarking, "" when none

vars == <<checksums, call, opts, faulty, origData, data, shmem, shmemVal, pool,
          pc, now, shmT, k, t0, tasks, res, rows, err>>

driverVars == <<opts, faulty, origData, data, shmem, shmemVal, pool,
                pc, now, shmT, k, t0, tasks, res, rows, err>>

-----------------------------------------------------------------------------
(* Bounds of the model *)

\* longest buffer given to a direct checksum_data call
MaxLen == 1025
\* longest buffer given to a benchmark run
MaxRunLen == 2
\* largest --number-tasks of a benchmark run
MaxTasks == 2

(* Program constants *)

\* range(9, 21) of line 141
SweepLo == 9
SweepHi == 21
\* the modulus of zlib's adler32
AdlerBase == 65521

-----------------------------------------------------------------------------
(* Bytes and 32-bit words *)

Min(a, b) == IF a < b THEN a ELSE b

Range(s) == {s[i] : i \in 1..Len(s)}

RECURSIVE XorBits(_, _, _)
XorBits(a, b, n) ==
    IF n = 0 THEN 0
    ELSE (((a % 2) + (b % 2)) % 2) + 2 * XorBits(a \div 2, b \div 2, n - 1)

Xor8 == [a \in 0..255 |-> [b \in 0..255 |-> XorBits(a, b, 8)]]

XorW(u, v) ==
    <<Xor8[u[1]][v[1]], Xor8[u[2]][v[2]], Xor8[u[3]][v[3]], Xor8[u[4]][v[4]]>>

Shr1(u) ==
    <<u[1] \div 2,
      (u[2] \div 2) + 128 * (u[1] % 2),
      (u[3] \div 2) + 128 * (u[2] % 2),
      (u[4] \div 2) + 128 * (u[3] % 2)>>

Shr8(u) == <<0, u[1], u[2], u[3]>>

Zero32 == <<0, 0, 0, 0>>
Ones32 == <<255, 255, 255, 255>>

\* x & 0xffffffff
Mask32(x) == <<x[1] % 256, x[2] % 256, x[3] % 256, x[4] % 256>>

-----------------------------------------------------------------------------
(* The registered methods: binascii.crc32, zlib.crc32, zlib.adler32 and    *)
(* crc32c.crc32, each method(block, running value) -> running value.       *)

\* reflected polynomials: 0xEDB88320 (CRC-32), 0x82F63B78 (CRC-32C)
PolyCrc32 == <<237, 184, 131, 32>>
PolyCrc32c == <<130, 246, 59, 120>>

RECURSIVE TableEntry(_, _, _)
TableEntry(c, poly, n) ==
    IF n = 0 THEN c
    ELSE TableEntry(IF c[4] % 2 = 1 THEN XorW(poly, Shr1(c)) ELSE Shr1(c),
                    poly, n - 1)

Crc32Table == [b \in 0..255 |-> TableEntry(<<0, 0, 0, b>>, PolyCrc32, 8)]
Crc32cTable == [b \in 0..255 |-> TableEntry(<<0, 0, 0, b>>, PolyCrc32c, 8)]

\* the byte loop over block[lo..hi]; the left half is evaluated first
RECURSIVE CrcFold(_, _, _, _, _)
CrcFold(table, crc, block, lo, hi) ==
    IF hi < lo THEN crc
    ELSE IF hi = lo
    THEN XorW(table[Xor8[crc[4]][block[lo]]], Shr8(crc))
    ELSE LET mid == (lo + hi) \div 2
             left == CrcFold(table, crc, block, lo, mid)
         IN  IF left[1] >= 0 THEN CrcFold(table, left, block, mid + 1, hi)
             ELSE left

crc32(block, crc) ==
    XorW(CrcFold(Crc32Table, XorW(crc, Ones32), block, 1, Len(block)), Ones32)

crc32c(block, crc) ==
    XorW(CrcFold(Crc32cTable, XorW(crc, Ones32), block, 1, Len(block)), Ones32)

\* st = <<adler, sum2>>; the left half is evaluated first
RECURSIVE AdlerFold(_, _, _, _)
AdlerFold(st, block, lo, hi) ==
    IF hi < lo THEN st
    ELSE IF hi = lo
    THEN LET a == (st[1] + block[lo]) % AdlerBase
         IN  <<a, (st[2] + a) % AdlerBase>>
    ELSE LET mid == (lo + hi) \div 2
             left == AdlerFold(st, block, lo, mid)
         IN  IF left[1] >= 0 THEN AdlerFold(left, block, mid + 1, hi)
             ELSE left

adler32(block, value) ==
    LET sum2 == value[1] * 256 + value[2]
        adler == value[3] * 256 + value[4]
        st == AdlerFold(<<adler, sum2>>, block, 1, Len(block))
    IN  <<st[2] \div 256, st[2] % 256, st[1] \div 256, st[1] % 256>>

-----------------------------------------------------------------------------
(* The registry *)

AllNames == {"crc32", "crc32z", "adler32", "crc32c", "xxhash32"}

Registry(haveCrc32c) ==
    <<"crc32", "crc32z", "adler32">>
        \o (IF haveCrc32c THEN <<"crc32c">> ELSE <<>>)

Registered(variant) == variant \in Range(checksums)

crc_init(variant) == Zero32

crc_method(variant, block, crc) ==
    CASE variant = "crc32" -> crc32(block, crc)
      [] variant = "crc32z" -> crc32(block, crc)
      [] variant = "adler32" -> adler32(block, crc)
      [] variant = "crc32c" -> crc32c(block, crc)

crc_final(variant, x) == Mask32(x)

-----------------------------------------------------------------------------
(* The chunked checksum executor *)

\* data[pos:pos + size], pos counted from 0
Slice_skew(seq, pos, size) == SubSeq(seq, pos + 1, Min(size, Len(seq)))
Slice(seq, pos, size) == SubSeq(seq, pos + 1, Min(pos + size, Len(seq)))

RECURSIVE BlockLoop(_, _, _, _, _)
BlockLoop(crc, bufsize, seq, variant, pos) ==
    IF pos >= Len(seq) THEN crc
    ELSE BlockLoop(crc_method(variant, Slice(seq, pos, bufsize), crc),
                   bufsize, seq, variant, pos + bufsize)

get_checksum(bufsize, seq, variant) ==
    crc_final(variant, BlockLoop(crc_init(variant), bufsize, seq, variant, 0))

\* the checksum of the tuple checksum_data returns
checksum_data(seq, bufsize, variant) ==
    IF bufsize = 0
    THEN crc_final(variant, crc_method(variant, seq, crc_init(variant)))
    ELSE get_checksum(bufsize, seq, variant)

-----------------------------------------------------------------------------
(* The sweep of line 141-144 *)

RECURSIVE Exp2(_)
Exp2(n) == IF n = 0 THEN 1 ELSE 2 * Exp2(n - 1)

BufsizeLog2s == [i \in 1..(SweepHi - SweepLo) |-> SweepLo + i - 1] \o <<0>>

Bufsize(bufsize_log2) == IF bufsize_log2 > 0 THEN Exp2(bufsize_log2) ELSE 0

-----------------------------------------------------------------------------
(* Input buffers *)

\* b' ' * n (line 183)
Spaces(n) == [i \in 1..n |-> 32]
\* the contents of a file of n bytes (line 179-180)
FileBytes(n) == [i \in 1..n |-> (i * 7 + 1) % 256]

CallLens == {0, 1, 511, 512, 513, 1024, MaxLen}
CallBuffers == {Spaces(n) : n \in CallLens} \cup {FileBytes(n) : n \in CallLens}

-----------------------------------------------------------------------------
(* A direct call of checksum_data(data, bufsize, variant) *)

IdleCall == [pc |-> "off", data |-> <<>>, bufsize |-> 0, variant |-> "",
             started |-> FALSE, crc |-> Zero32]

DriverOff ==
    /\ opts = [strategy |-> "serial", number_tasks |-> 1]
    /\ faulty = FALSE
    /\ origData = <<>>
    /\ data = <<>>
    /\ shmem = [allocs |-> 0, raw |-> <<>>, writes |-> 0]
    /\ shmemVal = <<>>
    /\ pool = [kind |-> "none", created |-> 0]
    /\ pc = "off"
    /\ now = 0
    /\ shmT = [t0 |-> 0, t1 |-> 0, tend |-> 0, reports |-> 0]
    /\ k = 0
    /\ t0 = 0
    /\ tasks = <<>>
    /\ res = <<>>
    /\ rows = <<>>
    /\ err = ""

InitCall ==
    /\ \E haveCrc32c \in BOOLEAN : checksums = Registry(haveCrc32c)
    /\ \E d \in CallBuffers, i \in 1..Len(BufsizeLog2s), v \in AllNames :
          call = [pc |-> "called", data |-> d, bufsize |-> Bufsize(BufsizeLog2s[i]),
                  variant |-> v, started |-> FALSE, crc |-> Zero32]
    /\ DriverOff

\* line 71-72 / 75-76: start = time.time()
CallStart ==
    /\ call.pc = "called"
    /\ call' = [call EXCEPT !.pc = "timing", !.started = TRUE]
    /\ UNCHANGED <<checksums, driverVars>>

\* line 73-74 / 77 with 62-68: the lookup checksums[variant], then the checksum
CallCompute ==
    /\ call.pc = "timing"
    /\ call' = IF Registered(call.variant)
               THEN [call EXCEPT !.pc = "returned",
                                 !.crc = checksum_data(call.data, call.bufsize,
                                                       call.variant)]
               ELSE [call EXCEPT !.pc = "KeyError"]
    /\ UNCHANGED <<checksums, driverVars>>

NextCall == CallStart \/ CallCompute

SpecCall == InitCall /\ [][NextCall]_vars

-----------------------------------------------------------------------------
(* A benchmark run: main() and do_benchmarking() *)

Strategies == {"serial", "threads", "processes", "processes_copy"}

\* an empty file and a file of MaxRunLen bytes
RunBuffers == {FileBytes(0), FileBytes(MaxRunLen)}

N == opts.number_tasks
TaskIds == 0..(N - 1)
Workers == 1..N

NSizes == Len(BufsizeLog2s)
NCombos == Len(checksums) * NSizes

\* the k-th element of itertools.product(checksums, list(range(9, 21)) + [0])
Variant(i) == checksums[(i \div NSizes) + 1]
BufsizeOf(i) == Bufsize(BufsizeLog2s[(i % NSizes) + 1])

NoTask == [st |-> "none", w |-> 0, start |-> 0, copyB |-> 0, copyE |-> 0,
           buf |-> "", copy |-> <<>>]
NoResult == [filled |-> FALSE, crc |-> Zero32, start |-> 0, elapsed |-> 0, by |-> 0]

InitRunWith(f) ==
    /\ \E haveCrc32c \in BOOLEAN : checksums = Registry(haveCrc32c)
    /\ call = IdleCall
    /\ \E s \in Strategies, n \in 1..MaxTasks :
          opts = [strategy |-> s, number_tasks |-> n]
    /\ faulty = f
    /\ origData \in RunBuffers
    /\ data = <<>>
    /\ shmem = [allocs |-> 0, raw |-> <<>>, writes |-> 0]
    /\ shmemVal = <<>>
    /\ pool = [kind |-> "none", created |-> 0]
    /\ pc = "main"
    /\ now = 0
    /\ shmT = [t0 |-> 0, t1 |-> 0, tend |-> 0, reports |-> 0]
    /\ k = 0
    /\ t0 = 0
    /\ tasks = <<>>
    /\ res = <<>>
    /\ rows = <<>>
    /\ err = ""

InitRun == InitRunWith(FALSE)

\* main(), line 176-190, and do_benchmarking up to line 135: the buffer is loaded
\* (a bytearray of the same bytes with -p) and the preamble printed
Main ==
    /\ pc = "main"
    /\ data' = origData
    /\ tasks' = [i \in TaskIds |-> NoTask]
    /\ res' = [i \in TaskIds |-> NoResult]
    /\ pc' = "get_pool"
    /\ UNCHANGED <<checksums, call, opts, faulty, origData, shmem, shmemVal, pool,
                   now, shmT, k, t0, rows, err>>

\* bytes(data), the value assigned to shmem_val.raw (line 107)
ShmInit(seq) == seq

\* _get_pool, line 101-102 and 111-113: a ThreadPool, a Pool or a _serial_pool
GetPoolPlain ==
    /\ pc = "get_pool"
    /\ opts.strategy # "processes"
    /\ pool' = [kind |-> IF opts.strategy = "threads" THEN "ThreadPool"
                         ELSE IF opts.strategy = "processes_copy" THEN "Pool"
                         ELSE "_serial_pool",
                created |-> pool.created + 1]
    /\ shmemVal' = [w \in Workers |-> FALSE]
    /\ pc' = "loop"
    /\ UNCHANGED <<checksums, call, opts, faulty, origData, data, shmem,
                   now, shmT, k, t0, tasks, res, rows, err>>

\* _get_pool, line 103-109: the RawArray is allocated (one clock unit), filled from
\* the buffer (one clock unit), the buffer emptied and the two times printed
ShmSetup ==
    /\ pc = "get_pool"
    /\ opts.strategy = "processes"
    /\ shmem' = [allocs |-> shmem.allocs + 1, raw |-> ShmInit(data),
                 writes |-> shmem.writes + 1]
    /\ data' = <<>>
    /\ shmT' = [t0 |-> now, t1 |-> now + 1, tend |-> now + 2,
                reports |-> shmT.reports + 1]
    /\ now' = now + 2
    /\ pc' = "shm_ready"
    /\ UNCHANGED <<checksums, call, opts, faulty, origData, shmemVal, pool, k, t0,
                   tasks, res, rows, err>>

\* _get_pool, line 110: the Pool is created with set_shmem_val as the initializer
\* of every worker process
GetPoolShared ==
    /\ pc = "shm_ready"
    /\ pool' = [kind |-> "Pool", created |-> pool.created + 1]
    /\ shmemVal' = [w \in Workers |-> FALSE]
    /\ pc' = "loop"
    /\ UNCHANGED <<checksums, call, opts, faulty, origData, data, shmem, now, shmT,
                   k, t0, tasks, res, rows, err>>

\* a worker process starts and runs its initializer set_shmem_val (line 81-83)
WorkerInit(w) ==
    /\ pool.kind = "Pool"
    /\ opts.strategy = "processes"
    /\ pc \in {"loop", "map"}
    /\ ~shmemVal[w]
    /\ shmemVal' = [shmemVal EXCEPT ![w] = TRUE]
    /\ UNCHANGED <<checksums, call, opts, faulty, origData, data, shmem, pool,
                   pc, now, shmT, k, t0, tasks, res, rows, err>>

\* line 141-149: the next combination; _get_checksum_function, t0 = time.time()
\* and the call of pool.map, which queues the task indices
StartMap ==
    /\ pc = "loop"
    /\ k < NCombos
    /\ t0' = now
    /\ tasks' = [i \in TaskIds |-> [NoTask EXCEPT !.st = "queued"]]
    /\ res' = [i \in TaskIds |-> NoResult]
    /\ pc' = "map"
    /\ UNCHANGED <<checksums, call, opts, faulty, origData, data, shmem, shmemVal,
                   pool, now, shmT, k, rows, err>>

\* _get_checksum_function (line 115-120) with _checksum_data_shmem_proc and
\* _checksum_data_proc (line 85-89): the buffer a task checksums
TaskBuffer_byref(strategy) ==
    IF strategy = "processes_copy" THEN "copy" ELSE "data"
TaskBuffer(strategy) ==
    IF strategy = "processes" THEN "_shmem_val"
    ELSE IF strategy = "processes_copy" THEN "copy"
    ELSE "data"

WorkerBusy(w) ==
    \E i \in TaskIds : tasks[i].st \in {"picked", "timing"} /\ tasks[i].w = w

WorkerReady(w) == opts.strategy = "processes" => shmemVal[w]

\* a pool worker takes the next queued task; with -P the partial it unpickles
\* holds a copy of the buffer (one clock unit). The workers of a pool are
\* interchangeable: the first that is ready and idle stands for any of them
TaskPick(i, w) ==
    /\ pc = "map"
    /\ opts.strategy # "serial"
    /\ tasks[i].st = "queued"
    /\ \A j \in TaskIds : j < i => tasks[j].st # "queued"
    /\ WorkerReady(w)
    /\ ~WorkerBusy(w)
    /\ \A v \in Workers : v < w => ~(WorkerReady(v) /\ ~WorkerBusy(v))
    /\ IF opts.strategy = "processes_copy"
       THEN /\ tasks' = [tasks EXCEPT ![i] = [@ EXCEPT !.st = "picked", !.w = w,
                                      !.copyB = now, !.copyE = now + 1,
                                      !.copy = data]]
            /\ now' = now + 1
       ELSE /\ tasks' = [tasks EXCEPT ![i] = [@ EXCEPT !.st = "picked", !.w = w]]
            /\ now' = now
    /\ UNCHANGED <<checksums, call, opts, faulty, origData, data, shmem, shmemVal,
                   pool, pc, shmT, k, t0, res, rows, err>>

\* _serial_pool.map (line 96-98): f(i) is called in the caller, in index order
SerialCall(i) ==
    /\ pc = "map"
    /\ opts.strategy = "serial"
    /\ tasks[i].st = "queued"
    /\ \A j \in TaskIds : j < i => tasks[j].st = "done"
    /\ tasks' = [tasks EXCEPT ![i] = [@ EXCEPT !.st = "picked"]]
    /\ UNCHANGED <<checksums, call, opts, faulty, origData, data, shmem, shmemVal,
                   pool, pc, now, shmT, k, t0, res, rows, err>>

\* start = time.time() of checksum_data (line 72 / 76)
TaskStartStamp_caller(i) == t0
TaskStartStamp(i) == now

TaskStart(i) ==
    /\ pc = "map"
    /\ tasks[i].st = "picked"
    /\ tasks' = [tasks EXCEPT ![i] = [@ EXCEPT !.st = "timing",
                                              !.start = TaskStartStamp(i),
                                              !.buf = TaskBuffer(opts.strategy)]]
    /\ UNCHANGED <<checksums, call, opts, faulty, origData, data, shmem, shmemVal,
                   pool, pc, now, shmT, k, t0, res, rows, err>>

\* the bytes behind the buffer a task was given
BufferBytes(i) ==
    CASE tasks[i].buf = "_shmem_val" -> shmem.raw
      [] tasks[i].buf = "copy" -> tasks[i].copy
      [] tasks[i].buf = "data" -> data

\* what checksum_data leaves in the buffer it was given (line 70-78 only read it)
AfterChecksum_consume(seq) == <<>>
AfterChecksum(seq) == seq

\* the value a method returns: a method that is not deterministic may, once in
\* a run, return another value
CrcOutcomes(crc) ==
    IF faulty THEN {crc, <<crc[1], crc[2], crc[3], Xor8[crc[4]][1]>>} ELSE {crc}

\* where pool.map puts the result of task i (line 98, line 149)
FirstFree(r) == CHOOSE i \in DOMAIN r : ~r[i].filled /\ \A j \in DOMAIN r : j < i => r[j].filled
Collect_completion(r, i, x) == [r EXCEPT ![FirstFree(r)] = x]
Collect(r, i, x) == [r EXCEPT ![i] = x]

\* the clock units the computation of task i takes: one, or none when it is over
\* before time.time() returns a later value than it did at start
Durations(i) == IF now = tasks[i].start THEN {0, 1} ELSE {1}

\* line 73-74 / 77 and line 78: the checksum is computed and
\* (crc, start, time.time() - start) is returned
TaskFinish(i) ==
    /\ pc = "map"
    /\ tasks[i].st = "timing"
    /\ LET right == checksum_data(BufferBytes(i), BufsizeOf(k), Variant(k))
       IN  \E d \in Durations(i), crc \in CrcOutcomes(right) :
              /\ now' = now + d
              /\ faulty' = (faulty /\ crc = right)
              /\ res' = Collect(res, i, [filled |-> TRUE, crc |-> crc,
                                         start |-> tasks[i].start,
                                         elapsed |-> now + d - tasks[i].start,
                                         by |-> i])
    /\ tasks' = [tasks EXCEPT ![i] = [@ EXCEPT !.st = "done",
                                              !.copy = AfterChecksum(@)]]
    /\ data' = IF tasks[i].buf = "data" THEN AfterChecksum(data) ELSE data
    /\ shmem' = IF tasks[i].buf = "_shmem_val"
                THEN [shmem EXCEPT !.raw = AfterChecksum(@)] ELSE shmem
    /\ UNCHANGED <<checksums, call, opts, origData, shmemVal, pool, pc,
                   shmT, k, t0, rows, err>>

\* all(x == crcs[0] for x in crcs), line 155
AllEqual_warn(crcs) == TRUE
AllEqual(crcs) == \A i \in DOMAIN crcs : crcs[i] = crcs[0]

\* the for loop of line 141: the pool of line 137 serves every combination
NextPc_repool(kNext) == IF kNext < NCombos THEN "get_pool" ELSE "done"
NextPc(kNext) == IF kNext < NCombos THEN "loop" ELSE "done"

\* line 150-163: map has returned; speeds = size_mb / t divides by every elapsed
\* time, then the checksums are compared and the row printed
Aggregate ==
    /\ pc = "map"
    /\ \A i \in TaskIds : res[i].filled
    /\ LET crcs == [i \in TaskIds |-> res[i].crc]
       IN  IF \E i \in TaskIds : res[i].elapsed = 0
           THEN /\ err' = "ZeroDivisionError"
                /\ pc' = "raised"
                /\ UNCHANGED <<rows, k, tasks, res>>
           ELSE IF ~AllEqual(crcs)
           THEN /\ err' = "Exception"
                /\ pc' = "raised"
                /\ UNCHANGED <<rows, k, tasks, res>>
           ELSE /\ rows' = Append(rows, [variant |-> Variant(k),
                                         bufsize |-> BufsizeOf(k),
                                         crc |-> crcs[0],
                                         pool |-> pool.created])
                /\ k' = k + 1
                /\ pc' = NextPc(k + 1)
                /\ tasks' = [i \in TaskIds |-> NoTask]
                /\ res' = [i \in TaskIds |-> NoResult]
                /\ err' = err
    /\ UNCHANGED <<checksums, call, opts, faulty, origData, data, shmem, shmemVal,
                   pool, now, shmT, t0>>

NextRun ==
    \/ Main
    \/ GetPoolPlain
    \/ ShmSetup
    \/ GetPoolShared
    \/ \E w \in Workers : WorkerInit(w)
    \/ StartMap
    \/ \E i \in TaskIds, w \in Workers : TaskPick(i, w)
    \/ \E i \in TaskIds : SerialCall(i)
    \/ \E i \in TaskIds : TaskStart(i)
    \/ \E i \in TaskIds : TaskFinish(i)
    \/ Aggregate

Spec == InitRun /\ [][NextRun]_vars

\* the same run with a registered method that is not deterministic
InitFaulty == InitRunWith(TRUE)
SpecFaulty == InitFaulty /\ [][NextRun]_vars

-----------------------------------------------------------------------------
\* C1: a call checksum_data(D, C, A) with a registered A and any C of the sweep
\* returns the checksum that checksum_data(D, 0, A) returns
C1_ChunkingKeepsChecksum ==
    call.pc = "returned" =>
        call.crc = checksum_data(call.data, 0, call.variant)

\* a call that returned after folding three blocks, the last one shorter
C1_Witness ==
    /\ call.pc = "returned"
    /\ call.bufsize = 512
    /\ call.data = FileBytes(MaxLen)
    /\ Len(call.data) > 2 * call.bufsize

\* known answers: crc32(b"123456789") = 0xCBF43926,
\* crc32c(b"123456789") = 0xE3069283, adler32(b"abc", 0) = 0x024A0126, and the
\* values zlib returns for FileBytes(1025)
KnownAnswers ==
    /\ crc32(<<49, 50, 51, 52, 53, 54, 55, 56, 57>>, Zero32) = <<203, 244, 57, 38>>
    /\ crc32c(<<49, 50, 51, 52, 53, 54, 55, 56, 57>>, Zero32) = <<227, 6, 146, 131>>
    /\ adler32(<<97, 98, 99>>, Zero32) = <<2, 74, 1, 38>>
    /\ crc32(FileBytes(1025), Zero32) = <<30, 3, 140, 233>>
    /\ crc32c(FileBytes(1025), Zero32) = <<198, 247, 63, 243>>
    /\ adler32(FileBytes(1025), Zero32) = <<111, 84, 254, 23>>

-----------------------------------------------------------------------------
(* Properties of a benchmark run *)

Started(i) == tasks[i].st \in {"timing", "done"}
MapReturned == pc \in {"map", "raised"} /\ \A i \in TaskIds : res[i].filled
InRun == pc \in {"loop", "map", "raised", "done"}

\* C2: in every strategy the checksums one map call returns are equal to each
\* other and to the serial, unchunked checksum of the bytes main() loaded,
\* whatever the order in which the workers run
C2_TasksAgreeWithReference ==
    InRun =>
        \A i \in TaskIds :
            res[i].filled =>
                /\ res[i].crc = checksum_data(origData, 0, Variant(k))
                /\ \A j \in TaskIds : res[j].filled => res[j].crc = res[i].crc

\* with -p, both tasks of a map call have returned after the buffer was emptied
C2_Witness ==
    /\ opts.strategy = "processes"
    /\ N = 2
    /\ origData # <<>>
    /\ data = <<>>
    /\ pc = "map"
    /\ res[0].filled /\ res[1].filled
    /\ BufsizeOf(k) = 512

\* C3: a map call whose checksums differ ends do_benchmarking with an error: no
\* row is printed for that combination, no later combination is started, and
\* the rows printed before stay the only output
Mismatch == MapReturned /\ \E i \in TaskIds : res[i].crc # res[0].crc

C3_MismatchIsFatal ==
    /\ [](pc = "raised" => err # "" /\ Len(rows) = k)
    /\ [][/\ (Mismatch => rows' = rows /\ k' = k /\ pc' \in {"map", "raised"})
          /\ (pc = "raised" => UNCHANGED <<pc, err, rows, k, tasks, res, t0>>)]_vars

\* a mismatch in a later combination, raised after rows were printed
C3_Witness ==
    /\ pc = "raised"
    /\ err = "Exception"
    /\ Mismatch
    /\ Len(rows) > 0

\* C4: pool.map returns one result per task index and the result at position i
\* is the one task i produced, whatever the order in which the tasks complete
C4_ResultsInTaskOrder ==
    InRun =>
        /\ DOMAIN res = TaskIds
        /\ Cardinality(DOMAIN res) = N
        /\ \A i \in TaskIds :
              /\ res[i].filled => res[i].by = i
              /\ pc = "map" => (res[i].filled <=> tasks[i].st = "done")

\* task 1 has completed while task 0 has not
C4_Witness ==
    /\ pc = "map"
    /\ N = 2
    /\ res[1].filled /\ res[1].by = 1
    /\ ~res[0].filled

\* C5: with -p the shared memory is allocated and filled once per run, before
\* the pool exists and before any task starts, and reported once; every task's
\* setup interval [t0, start] and measured interval begin after it has ended
C5_SharedSetupOnceBeforeTasks ==
    opts.strategy = "processes" =>
        /\ pool.created = 0 =>
              /\ pc \in {"main", "get_pool", "shm_ready"}
              /\ tasks \in {<<>>, [i \in TaskIds |-> NoTask]}
        /\ pc = "shm_ready" => pool.created = 0
        /\ pc \notin {"main", "get_pool"} =>
              /\ shmem.allocs = 1
              /\ shmem.writes = 1
              /\ shmT.reports = 1
              /\ shmT.t0 <= shmT.t1 /\ shmT.t1 <= shmT.tend
        /\ InRun =>
              /\ pool.created = 1
              /\ pc # "loop" => shmT.tend <= t0
              /\ \A i \in TaskIds :
                    /\ Started(i) => t0 <= tasks[i].start
                    /\ res[i].filled => shmT.tend <= res[i].start

\* with -p, a task of a later combination has returned its measured interval
C5_Witness ==
    /\ opts.strategy = "processes"
    /\ k > 0
    /\ pc = "map"
    /\ res[0].filled
    /\ res[0].elapsed > 0
    /\ res[0].start > shmT.tend

\* C6, as claimed: with -P the copy of the buffer made for a task happens after
\* the task's start timestamp is taken and before its elapsed time is computed
C6_CopyInsideElapsed ==
    (opts.strategy = "processes_copy" /\ pc = "map") =>
        \A i \in TaskIds :
            /\ Started(i) => tasks[i].start <= tasks[i].copyB
            /\ res[i].filled => tasks[i].copyE <= res[i].start + res[i].elapsed

\* C6, as amended: with -P the copy of the buffer made for a task happens after
\* t0 of the map call and before the task's start timestamp is taken: it is part
\* of the task's setup time and no part of its elapsed time
C6_CopyInsideSetup ==
    (opts.strategy = "processes_copy" /\ pc = "map") =>
        \A i \in TaskIds :
            /\ tasks[i].st \in {"picked", "timing", "done"} =>
                  /\ t0 <= tasks[i].copyB
                  /\ tasks[i].copyB < tasks[i].copyE
            /\ Started(i) => tasks[i].copyE <= tasks[i].start

\* with -P, a task has returned a positive elapsed time
C6_Witness ==
    /\ opts.strategy = "processes_copy"
    /\ pc = "map"
    /\ res[0].filled
    /\ res[0].elapsed > 0
    /\ tasks[0].copy = origData
    /\ origData # <<>>

\* C7, as claimed: in a serial run the setup interval [t0, start] of a task
\* holds the computation of no other task of the same map call
C7_SerialSetupIsCallOverhead ==
    (opts.strategy = "serial" /\ pc = "map") =>
        \A i \in TaskIds : \A j \in TaskIds \ {i} :
            (Started(i) /\ res[j].filled /\ res[j].elapsed > 0) =>
                ~(t0 <= res[j].start
                  /\ res[j].start + res[j].elapsed <= tasks[i].start)

\* the rows printed so far are those of the first combinations, in the order of
\* itertools.product, all served by the one pool
RowsInSweepOrder ==
    /\ Len(rows) = (IF pc = "done" THEN NCombos ELSE k)
    /\ \A j \in 1..Len(rows) :
          /\ rows[j].variant = Variant(j - 1)
          /\ rows[j].bufsize = BufsizeOf(j - 1)
          /\ rows[j].pool = 1

\* C8, as claimed: without a checksum mismatch do_benchmarking ends only after
\* the row of the last combination, the rows being in sweep order
C8_AllRowsWithoutMismatch ==
    (InRun /\ ~Mismatch) => (pc # "raised" /\ RowsInSweepOrder)

\* C10: no task changes the bytes it checksums; with -p the shared array is
\* written once, before the pool exists, the buffer is empty from then on and
\* every task reads the array its worker's initializer installed
C10_BuffersAreReadOnly ==
    /\ (pc # "main" /\ pc # "off" /\ opts.strategy # "processes") => data = origData
    /\ opts.strategy = "processes" =>
          /\ pc = "get_pool" => (data = origData /\ shmem.writes = 0)
          /\ pc \notin {"main", "get_pool"} =>
                /\ shmem.raw = origData
                /\ shmem.writes = 1
                /\ data = <<>>
          /\ shmem.writes > 0 /\ pc = "shm_ready" => pool.created = 0
    /\ InRun =>
          \A i \in TaskIds :
              /\ (opts.strategy = "processes_copy"
                    /\ tasks[i].st \in {"picked", "timing", "done"})
                 => tasks[i].copy = origData
              /\ Started(i) =>
                    /\ tasks[i].buf = (IF opts.strategy = "processes"
                                       THEN "_shmem_val"
                                       ELSE IF opts.strategy = "processes_copy"
                                       THEN "copy" ELSE "data")
                    /\ opts.strategy = "processes" => shmemVal[tasks[i].w]

\* with -p, a task that read the shared array has returned, the buffer being empty
C10_Witness ==
    /\ opts.strategy = "processes"
    /\ origData # <<>>
    /\ data = <<>>
    /\ pc = "map"
    /\ tasks[0].st = "done"
    /\ tasks[0].buf = "_shmem_val"
    /\ shmem.raw = origData

-----------------------------------------------------------------------------
(* Properties of a direct call *)

====
